---- MODULE Spec2Model ----
(***************************************************************************)
(* Model of app.py: the query-classification / reference-aggregation /     *)
(* context-composition / answer-request pipeline of the LLM assistant.     *)
(*                                                                         *)
(* Strings are sequences of tokens (TLA+ strings).  A query is a sequence  *)
(* of one-character tokens, so that the regular expressions of the source  *)
(* can be evaluated character by character.  Formatted strings (f-strings) *)
(* are the concatenation of their literal pieces and their arguments.      *)
(* The glyphs that prefix the source's messages are written as ASCII tags  *)
(* ("[x] ", "[!] ", "[i] ").                                               *)
(***************************************************************************)
EXTENDS Naturals, Sequences, FiniteSets, TLC

VARIABLES
    st_secrets,     \* st.secrets: [flat: set of names, api_keys: set of names]
    user_q,         \* the text-area content
    pc,             \* position of the handler being modelled
    intent,         \* what the classifiers computed for user_q
    refs,           \* the dict built by build_context_snippet (insertion ordered)
    refs_text,      \* the string returned by render_refs
    answer,         \* the string returned by ask_openrouter
    raised,         \* name of the exception that escaped, or "none"
    requests_made,  \* network requests issued by the last handler, per provider
    callee,         \* the collaborator called last (collaborator harness)
    data,           \* the provider response handed to the collaborator
    result          \* the value the collaborator returned

vars == <<st_secrets, user_q, pc, intent, refs, refs_text, answer, raised,
          requests_made, callee, data, result>>

---------------------------------------------------------------------------
(* Bounds *)

MaxFrags == 3

MaxPipeFrags == 2

MaxHits == 2

MaxArticles == 6

MaxPods == 2

MaxSubpods == 1

MaxGoogleItems == 7

MaxNewsItems == 5

---------------------------------------------------------------------------
(* Characters and the character classes of Python's re module *)

UpperChars == <<"A","B","C","D","E","F","G","H","I","J","K","L","M",
                "N","O","P","Q","R","S","T","U","V","W","X","Y","Z">>

LowerChars == <<"a","b","c","d","e","f","g","h","i","j","k","l","m",
                "n","o","p","q","r","s","t","u","v","w","x","y","z">>

Range(s) == { s[i] : i \in 1..Len(s) }

UpperSet == Range(UpperChars)

LetterSet == Range(UpperChars) \cup Range(LowerChars)

DigitSet == {"0","1","2","3","4","5","6","7","8","9"}

\* \s
SpaceSet == {" ", "\t", "\n", "\r"}

\* \w
WordSet == LetterSet \cup DigitSet \cup {"_"}

LowerMap == [c \in UpperSet |-> LowerChars[CHOOSE i \in 1..26 : UpperChars[i] = c]]

IsLetter(c) == c \in LetterSet

IsDigit(c) == c \in DigitSet

IsSpace(c) == c \in SpaceSet

IsWord(c) == c \in WordSet

\* str.lower() on one character
LowerChar(c) == IF c \in UpperSet THEN LowerMap[c] ELSE c

\* str.lower()
Lower(s) == [i \in 1..Len(s) |-> LowerChar(s[i])]

Min(a, b) == IF a < b THEN a ELSE b

\* a slice that keeps everything
Take_All(s, n) == s

\* s[:n]
Take(s, n) == SubSeq(s, 1, Min(n, Len(s)))

\* str.strip(chars): drop leading and trailing characters that are in cs
RECURSIVE LStripSet(_, _)
LStripSet(s, cs) ==
    IF s # <<>> /\ Head(s) \in cs THEN LStripSet(Tail(s), cs) ELSE s

RECURSIVE RStripSet(_, _)
RStripSet(s, cs) ==
    IF s # <<>> /\ s[Len(s)] \in cs
    THEN RStripSet(SubSeq(s, 1, Len(s) - 1), cs)
    ELSE s

StripSet(s, cs) == RStripSet(LStripSet(s, cs), cs)

\* str.strip()
Strip(s) == StripSet(s, SpaceSet)

\* \b between s[i] and s[i+1] (i = 0: start of string, i = Len(s): end)
WordBoundary(s, i) ==
    (i >= 1 /\ i <= Len(s) /\ IsWord(s[i]))
        # (i + 1 <= Len(s) /\ IsWord(s[i + 1]))

\* the literal w (lower case) occurs in s at position i, ignoring case (re.I)
MatchLit(s, i, w) ==
    /\ i >= 1
    /\ i + Len(w) - 1 <= Len(s)
    /\ \A k \in 1..Len(w) : LowerChar(s[i + k - 1]) = w[k]

\* \bw\b matches in s at position i
MatchWord(s, i, w) ==
    /\ MatchLit(s, i, w)
    /\ WordBoundary(s, i - 1)
    /\ WordBoundary(s, i + Len(w) - 1)

---------------------------------------------------------------------------
(* Vocabulary *)

W_solve       == <<"s","o","l","v","e">>
W_evaluate    == <<"e","v","a","l","u","a","t","e">>
W_derivative  == <<"d","e","r","i","v","a","t","i","v","e">>
W_integral    == <<"i","n","t","e","g","r","a","l">>
W_weather     == <<"w","e","a","t","h","e","r">>
W_temperature == <<"t","e","m","p","e","r","a","t","u","r","e">>
W_forecast    == <<"f","o","r","e","c","a","s","t">>
W_in          == <<"i","n">>
W_for         == <<"f","o","r">>
W_news        == <<"n","e","w","s">>
W_headline    == <<"h","e","a","d","l","i","n","e">>
W_trending    == <<"t","r","e","n","d","i","n","g">>
W_today       == <<"t","o","d","a","y">>
W_London      == <<"L","o","n","d","o","n">>

---------------------------------------------------------------------------
(* Intent detection *)

IsMathOp(c) == c \in {"+", "-", "*", "/", "^"}

\* first position at or after k that does not hold white space
RECURSIVE SkipSpace(_, _)
SkipSpace(s, k) ==
    IF k <= Len(s) /\ IsSpace(s[k]) THEN SkipSpace(s, k + 1) ELSE k

\* last position at or before k that does not hold white space
RECURSIVE SkipSpaceBack(_, _)
SkipSpaceBack(s, k) ==
    IF k >= 1 /\ IsSpace(s[k]) THEN SkipSpaceBack(s, k - 1) ELSE k

\* (\d+\s*[\+\-\*/\^]\s*\d+) matches somewhere in q
NumericExpression(q) ==
    \E o \in 1..Len(q) :
        /\ IsMathOp(q[o])
        /\ LET a == SkipSpaceBack(q, o - 1)
               b == SkipSpace(q, o + 1)
           IN  /\ a >= 1 /\ IsDigit(q[a])
               /\ b <= Len(q) /\ IsDigit(q[b])

MATH_HINT(q) ==
    \/ NumericExpression(q)
    \/ \E i \in 1..Len(q) :
          \E w \in {W_solve, W_evaluate, W_derivative, W_integral} :
              MatchWord(q, i, w)

looks_like_math(q) == MATH_HINT(q)

WEATHER_HINT(q) ==
    \E i \in 1..Len(q) :
        \E w \in {W_weather, W_temperature, W_forecast} : MatchWord(q, i, w)

\* the character class [A-Za-z\s\.\-'] of CITY_FROM_WEATHER
InCityClass(c) == IsLetter(c) \/ IsSpace(c) \/ c \in {".", "-", "'"}

CityMaxLen == 40

\* start of group 1 when CITY_FROM_WEATHER matches in s at position i, else 0
CityGroupAt(s, i) ==
    LET k == IF MatchLit(s, i, W_in) THEN i + 2
             ELSE IF MatchLit(s, i, W_for) THEN i + 3
             ELSE 0
        j == SkipSpace(s, k)
    IN  IF /\ k > 0
           /\ j > k
           /\ j <= Len(s)
           /\ IsLetter(s[j])
           /\ Len(s) - j >= 1
           /\ Len(s) - j <= CityMaxLen
           /\ \A p \in (j + 1)..Len(s) : InCityClass(s[p])
        THEN j
        ELSE 0

None == [some |-> FALSE, val |-> <<>>]

Some(v) == [some |-> TRUE, val |-> v]

should_check_weather(q) ==
    IF ~WEATHER_HINT(q) THEN None
    ELSE LET s == Strip(q)
             hits == { i \in 1..Len(s) : CityGroupAt(s, i) > 0 }
         IN  IF hits # {}
             THEN LET i == CHOOSE x \in hits : \A y \in hits : x <= y
                      group1 == SubSeq(s, CityGroupAt(s, i), Len(s))
                  IN  Some(StripSet(Strip(group1), {"."}))
             ELSE IF Lower(s) \in {W_weather, W_forecast, W_temperature}
                  THEN Some(W_London)
                  ELSE None

\* re.search(r"\bnews|headline|trending|today\b", user_q, re.I)
NewsHint(q) ==
    \E i \in 1..Len(q) :
        \/ WordBoundary(q, i - 1) /\ MatchLit(q, i, W_news)
        \/ MatchLit(q, i, W_headline)
        \/ MatchLit(q, i, W_trending)
        \/ MatchLit(q, i, W_today) /\ WordBoundary(q, i + Len(W_today) - 1)

Classify(q) ==
    [math |-> looks_like_math(q),
     city |-> should_check_weather(q),
     news |-> NewsHint(q)]

NoIntent == [math |-> FALSE, city |-> None, news |-> FALSE]

---------------------------------------------------------------------------
(* Secrets *)

SecretNames == {"OPENROUTER_API_KEY", "GOOGLE_API_KEY", "GOOGLE_CSE_ID",
                "WOLFRAM_APP_ID", "OPENWEATHER_API_KEY", "NEWS_API_KEY"}

\* truthiness of get_secret(name): flat entry first, then the [api_keys] table
get_secret(name) ==
    IF name \in st_secrets.flat THEN TRUE
    ELSE IF name \in st_secrets.api_keys THEN TRUE
    ELSE FALSE

OPENROUTER_API_KEY == get_secret("OPENROUTER_API_KEY")

GOOGLE_API_KEY == get_secret("GOOGLE_API_KEY")

GOOGLE_CSE_ID == get_secret("GOOGLE_CSE_ID")

OPENWEATHER_API_KEY == get_secret("OPENWEATHER_API_KEY")

NEWS_API_KEY == get_secret("NEWS_API_KEY")

\* st.secrets[name] succeeds (the flat lookup used by query_wolfram_alpha)
SecretsSubscript(name) == name \in st_secrets.flat

---------------------------------------------------------------------------
(* Values *)

\* a dict key that is missing from a provider's JSON
Absent == "(absent)"

\* d.get(key, default)
Get(v, default) == IF v = Absent THEN default ELSE v

\* a str value and a list[str] value of the reference dict
Str(t) == [isList |-> FALSE, items |-> <<t>>]

List(ts) == [isList |-> TRUE, items |-> ts]

NoValue == [isList |-> FALSE, items |-> <<>>]

\* bool(text) for a str
Truthy(t) == \E i \in 1..Len(t) : t[i] # ""

\* what a collaborator call produced
Returned(v, n) == [ret |-> v, raised |-> "none", net |-> n]

Raised(e, n) == [ret |-> NoValue, raised |-> e, net |-> n]

---------------------------------------------------------------------------
(* External API wrappers *)

MSG_MISSING_OPENROUTER == <<"[x] Missing API key: OPENROUTER_API_KEY">>

\* ask_openrouter without the credential guard
ask_openrouter_NoGuard(system_prompt, user_prompt, resp) ==
    IF resp.exc
    THEN [ret |-> <<"[x] OpenRouter error: ", resp.detail>>,
          raised |-> "none", net |-> 1]
    ELSE [ret |-> resp.content, raised |-> "none", net |-> 1]

ask_openrouter(system_prompt, user_prompt, resp) ==
    IF ~OPENROUTER_API_KEY
    THEN [ret |-> MSG_MISSING_OPENROUTER, raised |-> "none", net |-> 0]
    ELSE IF resp.exc
         THEN [ret |-> <<"[x] OpenRouter error: ", resp.detail>>,
               raised |-> "none", net |-> 1]
         ELSE [ret |-> resp.content, raised |-> "none", net |-> 1]

T_result == <<"r","e","s","u","l","t">>

MSG_WOLFRAM_UNREADABLE == <<"No readable answer found from Wolfram Alpha.">>

MSG_WOLFRAM_NO_ANSWER == <<"Wolfram Alpha could not compute an answer.">>

\* subpods and subpods[0].get("plaintext")
PodReadable(pod) ==
    /\ Len(pod.subpods) > 0
    /\ Truthy(pod.subpods[1].plaintext)

\* lines 156-169: the parse of a decoded response
WolframParse(resp) ==
    IF resp.success
    THEN LET pods == resp.pods
             hits1 == { i \in 1..Len(pods) :
                          /\ Lower(pods[i].title) = T_result
                          /\ PodReadable(pods[i]) }
             hits2 == { i \in 1..Len(pods) : PodReadable(pods[i]) }
             first(S) == CHOOSE x \in S : \A y \in S : x <= y
         IN  IF hits1 # {} THEN pods[first(hits1)].subpods[1].plaintext
             ELSE IF hits2 # {} THEN pods[first(hits2)].subpods[1].plaintext
             ELSE MSG_WOLFRAM_UNREADABLE
    ELSE MSG_WOLFRAM_NO_ANSWER

query_wolfram_alpha(query, resp) ==
    IF ~SecretsSubscript("WOLFRAM_APP_ID")
    THEN Raised("KeyError", 0)
    ELSE IF resp.exc
         THEN Returned(Str(<<"[!] Wolfram Alpha error: ", resp.detail>>), 1)
         ELSE Returned(Str(WolframParse(resp)), 1)

MSG_GOOGLE_SKIPPED == <<"[!] Skipped (missing GOOGLE_API_KEY or GOOGLE_CSE_ID)">>

GoogleItem(it) == <<Get(it.title, "(no title)"), " - ", Get(it.link, "")>>

google_cse_search(query, num, resp) ==
    IF ~GOOGLE_API_KEY \/ ~GOOGLE_CSE_ID
    THEN Returned(List(<<MSG_GOOGLE_SKIPPED>>), 0)
    ELSE IF resp.exc
         THEN Returned(List(<< <<"[x] Google Search error: ", resp.detail>> >>), 1)
         ELSE IF resp.error.present
              THEN Returned(List(<< <<"[x] Google API error: ",
                                      Get(resp.error.message, "Unknown error")>> >>), 1)
              ELSE IF resp.items = <<>>
                   THEN Returned(List(<< <<"[i] Google: no results">> >>), 1)
                   ELSE Returned(List([i \in 1..Len(resp.items) |->
                                          GoogleItem(resp.items[i])]), 1)

MSG_WEATHER_SKIPPED == <<"[!] Skipped (missing OPENWEATHER_API_KEY)">>

openweather(city, resp) ==
    IF ~OPENWEATHER_API_KEY
    THEN Returned(Str(MSG_WEATHER_SKIPPED), 0)
    ELSE IF resp.exc
         THEN Returned(Str(<<"[x] Weather error: ", resp.detail>>), 1)
         ELSE IF resp.cod # 200
              THEN Returned(Str(<<"[i] Weather: ",
                                  Get(resp.message, "city not found")>>), 1)
              ELSE Returned(Str(city \o <<": ", resp.temp, " C, ", resp.desc>>), 1)

MSG_NEWS_SKIPPED == <<"[!] Skipped (missing NEWS_API_KEY)">>

NewsItem(a) ==
    <<Get(a.title, "(no title)"), " - ", Get(a.source, ""), " - ", Get(a.url, "")>>

\* news_top that returns the collected list as it is
news_top_NoPlaceholder(country, limit, resp) ==
    IF ~NEWS_API_KEY
    THEN Returned(List(<<MSG_NEWS_SKIPPED>>), 0)
    ELSE IF resp.exc
         THEN Returned(List(<< <<"[x] News API error: ", resp.detail>> >>), 1)
         ELSE IF resp.status # "ok"
              THEN Returned(List(<< <<"[x] News API error: ",
                                      Get(resp.message, "Unknown error")>> >>), 1)
              ELSE LET articles == Take(resp.articles, limit)
                   IN  Returned(List([i \in 1..Len(articles) |->
                                         NewsItem(articles[i])]), 1)

news_top(country, limit, resp) ==
    IF ~NEWS_API_KEY
    THEN Returned(List(<<MSG_NEWS_SKIPPED>>), 0)
    ELSE IF resp.exc
         THEN Returned(List(<< <<"[x] News API error: ", resp.detail>> >>), 1)
         ELSE IF resp.status # "ok"
              THEN Returned(List(<< <<"[x] News API error: ",
                                      Get(resp.message, "Unknown error")>> >>), 1)
              ELSE LET articles == Take(resp.articles, limit)
                       out == [i \in 1..Len(articles) |-> NewsItem(articles[i])]
                   IN  IF out # <<>>
                       THEN Returned(List(out), 1)
                       ELSE Returned(List(<< <<"[i] No headlines">> >>), 1)

---------------------------------------------------------------------------
(* The reference dict (a Python dict keeps insertion order) *)

DictHas(d, k) == \E i \in 1..Len(d) : d[i].key = k

DictGet(d, k) == d[CHOOSE i \in 1..Len(d) : d[i].key = k].value

DictKeys(d) == { d[i].key : i \in 1..Len(d) }

\* d[k] = v
DictSet(d, k, v) ==
    IF DictHas(d, k)
    THEN [i \in 1..Len(d) |-> IF d[i].key = k THEN [key |-> k, value |-> v] ELSE d[i]]
    ELSE Append(d, [key |-> k, value |-> v])

Providers == {"google", "wolfram", "weather", "news", "chat"}

NoRequests == [p \in Providers |-> 0]

---------------------------------------------------------------------------
(* Compose LLM prompt with references *)

SYSTEM_PROMPT == <<"You are the Answerer in a lightweight multi-agent pipeline. ">>

build_context_snippet(q, gresp, wresp, nresp) ==
    LET g == google_cse_search(q, 5, gresp)
        refs1 == DictSet(<<>>, "google", g.ret)
        city == should_check_weather(q)
        wantsWeather == city.some /\ city.val # <<>>
        w == openweather(city.val, wresp)
        refs2 == IF wantsWeather THEN DictSet(refs1, "weather", w.ret) ELSE refs1
        wantsNews == NewsHint(q)
        n == news_top("us", 5, nresp)
        refs3 == IF wantsNews THEN DictSet(refs2, "news", n.ret) ELSE refs2
    IN  IF looks_like_math(q)
        \* wolfram_compute is not defined anywhere in the module
        THEN [ret |-> <<>>, raised |-> "NameError",
              net |-> [NoRequests EXCEPT !["google"] = g.net]]
        ELSE [ret |-> refs3, raised |-> "none",
              net |-> [NoRequests EXCEPT !["google"] = g.net,
                                         !["weather"] = IF wantsWeather THEN w.net ELSE 0,
                                         !["news"] = IF wantsNews THEN n.net ELSE 0]]

\* sep.join(ts)
RECURSIVE Join(_, _)
Join(ts, sep) ==
    IF ts = <<>> THEN <<>>
    ELSE IF Len(ts) = 1 THEN ts[1]
    ELSE ts[1] \o sep \o Join(Tail(ts), sep)

\* f"{value}": a str as it is, a list as its repr
Format(v) ==
    IF v.isList THEN <<"[">> \o Join(v.items, <<", ">>) \o <<"]">>
    ELSE v.items[1]

NEWS_CAP == 3

GOOGLE_CAP == 5

\* one rendered entry of the dict
RenderEntry(e) ==
    IF e.key = "wolfram" THEN <<"- Wolfram: ">> \o Format(e.value)
    ELSE IF e.key = "weather" THEN <<"- Weather: ">> \o Format(e.value)
    ELSE IF e.key = "news"
         THEN IF e.value.isList
              THEN <<"- News:\n  ">> \o Join(Take(e.value.items, NEWS_CAP), <<"\n  ">>)
              ELSE <<"- News: ">> \o Format(e.value)
         ELSE IF e.value.isList
              THEN <<"- Google:\n  ">> \o Join(Take(e.value.items, GOOGLE_CAP), <<"\n  ">>)
              ELSE <<"- Google: ">> \o Format(e.value)

\* render_refs that walks the dict in its own (insertion) order
render_refs_DictOrder(context_refs) ==
    IF context_refs # <<>>
    THEN Join([i \in 1..Len(context_refs) |-> RenderEntry(context_refs[i])], <<"\n">>)
    ELSE <<"(no external references)">>

render_refs(context_refs) ==
    LET l1 == IF DictHas(context_refs, "wolfram")
              THEN << <<"- Wolfram: ">> \o Format(DictGet(context_refs, "wolfram")) >>
              ELSE <<>>
        l2 == IF DictHas(context_refs, "weather")
              THEN Append(l1, <<"- Weather: ">> \o Format(DictGet(context_refs, "weather")))
              ELSE l1
        l3 == IF DictHas(context_refs, "news")
              THEN LET items == DictGet(context_refs, "news")
                   IN  IF items.isList
                       THEN Append(l2, <<"- News:\n  ">>
                                       \o Join(Take(items.items, NEWS_CAP), <<"\n  ">>))
                       ELSE Append(l2, <<"- News: ">> \o Format(items))
              ELSE l2
        lines == IF DictHas(context_refs, "google")
                 THEN LET items == DictGet(context_refs, "google")
                      IN  IF items.isList
                          THEN Append(l3, <<"- Google:\n  ">>
                                          \o Join(Take(items.items, GOOGLE_CAP), <<"\n  ">>))
                          ELSE Append(l3, <<"- Google: ">> \o Format(items))
                 ELSE l3
    IN  IF lines # <<>> THEN Join(lines, <<"\n">>)
        ELSE <<"(no external references)">>

\* the f-string of lines 340-349
ComposeUserPrompt(q, text) ==
    <<"User Question:\n">> \o q
        \o <<"\n\nExternal references (use as supportive context only):\n">>
        \o text \o <<"\n\nInstruction:\n">>

---------------------------------------------------------------------------
(* Inputs: queries *)

F_weatherInParis == <<"w","e","a","t","h","e","r"," ","i","n"," ","P","a","r","i","s">>
F_dot      == <<".">>
F_space    == <<" ">>
F_letter   == <<"l","e","t","t","e","r">>
F_s        == <<"s">>
F_whatsnew == <<"w","h","a","t","'","s"," ","n","e","w">>
F_Paris    == <<"P","a","r","i","s">>

Fragments == {F_weatherInParis, W_weather, F_dot, F_space, W_news, F_letter,
              W_headline, F_s, W_trending, W_today, F_whatsnew}

P_weatherParis == <<"W","e","a","t","h","e","r"," ","i","n"," ","P","a","r","i","s">>
P_spaceDot     == <<" ", ".">>
P_sum          == <<"2"," ","+"," ","2">>
P_news         == <<" ","n","e","w","s">>

PipeFragments == {P_weatherParis, P_spaceDot, P_sum, P_news}

\* the concatenations of at most n elements of F
RECURSIVE Concats(_, _)
Concats(F, n) ==
    IF n = 0 THEN {<<>>}
    ELSE LET prev == Concats(F, n - 1)
         IN  prev \cup { p \o f : p \in prev, f \in F }

Queries == Concats(Fragments, MaxFrags)

PipeQueries == Concats(PipeFragments, MaxPipeFrags)

---------------------------------------------------------------------------
(* Inputs: secrets and provider responses *)

SecretConfigs ==
    { [flat |-> S, api_keys |-> {}] : S \in SUBSET SecretNames }
        \cup { [flat |-> {}, api_keys |-> S] : S \in SUBSET SecretNames }

\* the sequences of at most n elements of S
RECURSIVE SeqsUpTo(_, _)
SeqsUpTo(S, n) ==
    IF n = 0 THEN {<<>>}
    ELSE LET prev == SeqsUpTo(S, n - 1)
         IN  prev \cup { Append(p, x) : p \in prev, x \in S }

Details == {"timed out"}

NoResponse == [exc |-> TRUE, detail |-> "(no request)"]

NoError == [present |-> FALSE, message |-> Absent]

Hit(i, bare) ==
    [title |-> IF bare THEN Absent ELSE "title" \o ToString(i),
     link  |-> "http://g/" \o ToString(i)]

GoogleResponses ==
    { [exc |-> TRUE, detail |-> d, error |-> NoError, items |-> <<>>] : d \in Details }
        \cup { [exc |-> FALSE, detail |-> "",
                error |-> [present |-> TRUE, message |-> m], items |-> <<>>] :
               m \in {Absent, "quota exceeded"} }
        \cup { [exc |-> FALSE, detail |-> "", error |-> NoError,
                items |-> [i \in 1..n |-> Hit(i, bare)]] :
               n \in 0..MaxHits, bare \in BOOLEAN }

WeatherResponses ==
    { [exc |-> TRUE, detail |-> d, cod |-> 0, message |-> Absent,
       temp |-> "", desc |-> ""] : d \in Details }
        \cup { [exc |-> FALSE, detail |-> "", cod |-> 404, message |-> m,
                temp |-> "", desc |-> ""] : m \in {Absent, "no such city"} }
        \cup { [exc |-> FALSE, detail |-> "", cod |-> 200, message |-> Absent,
                temp |-> "21.5", desc |-> "clear sky"] }

Article(i) ==
    [title  |-> "headline" \o ToString(i),
     source |-> IF i = 1 THEN Absent ELSE "source" \o ToString(i),
     url    |-> "http://n/" \o ToString(i)]

NewsResponses ==
    { [exc |-> TRUE, detail |-> d, status |-> "", message |-> Absent,
       articles |-> <<>>] : d \in Details }
        \cup { [exc |-> FALSE, detail |-> "", status |-> "error", message |-> m,
                articles |-> <<>>] : m \in {Absent, "apiKeyInvalid"} }
        \cup { [exc |-> FALSE, detail |-> "", status |-> "ok", message |-> Absent,
                articles |-> [i \in 1..n |-> Article(i)]] : n \in 0..MaxArticles }

ChatResponses ==
    { [exc |-> TRUE, detail |-> d, content |-> <<>>] : d \in Details }
        \cup { [exc |-> FALSE, detail |-> "", content |-> <<"The answer.">>] }

T_Result == <<"R","e","s","u","l","t">>
T_RESULT == <<"R","E","S","U","L","T">>
T_Input  == <<"I","n","p","u","t">>

Plaintexts == { <<>>, <<" ">>, <<"42">> }

Subpods == { [plaintext |-> t] : t \in Plaintexts }

Pods == { [title |-> t, subpods |-> sp] :
          t \in {T_Result, T_RESULT, T_Input}, sp \in SeqsUpTo(Subpods, MaxSubpods) }

WolframResponses ==
    { [exc |-> TRUE, detail |-> d, success |-> FALSE, pods |-> <<>>] : d \in Details }
        \cup { [exc |-> FALSE, detail |-> "", success |-> FALSE, pods |-> <<>>] }
        \cup { [exc |-> FALSE, detail |-> "", success |-> TRUE, pods |-> ps] :
               ps \in SeqsUpTo(Pods, MaxPods) }

\* the response of a request: one of S when the request is issued
ResponsesIf(issued, S) == IF issued THEN S ELSE {NoResponse}

NoData == [args |-> <<>>, resp |-> NoResponse]

---------------------------------------------------------------------------
(* The submit handler (lines 335-350) *)

Init ==
    /\ st_secrets \in SecretConfigs
    /\ user_q \in PipeQueries
    /\ pc = "idle"
    /\ intent = NoIntent
    /\ refs = <<>>
    /\ refs_text = <<>>
    /\ answer = <<>>
    /\ raised = "none"
    /\ requests_made = NoRequests
    /\ callee = "none"
    /\ data = NoData
    /\ result = NoValue

\* refs = build_context_snippet(user_q)
Submit ==
    /\ pc = "idle"
    /\ Strip(user_q) # <<>>
    /\ \E gresp \in ResponsesIf(GOOGLE_API_KEY /\ GOOGLE_CSE_ID, GoogleResponses),
          wresp \in ResponsesIf(OPENWEATHER_API_KEY /\ should_check_weather(user_q).some
                                   /\ ~looks_like_math(user_q), WeatherResponses),
          nresp \in ResponsesIf(NEWS_API_KEY /\ NewsHint(user_q)
                                   /\ ~looks_like_math(user_q), NewsResponses) :
          LET r == build_context_snippet(user_q, gresp, wresp, nresp)
          IN  /\ intent' = Classify(user_q)
              /\ refs' = r.ret
              /\ raised' = r.raised
              /\ requests_made' = r.net
              /\ pc' = IF r.raised = "none" THEN "built" ELSE "raised"
    /\ UNCHANGED <<st_secrets, user_q, refs_text, answer, callee, data, result>>

\* refs_text = render_refs(refs)
RenderRefs ==
    /\ pc = "built"
    /\ refs_text' = render_refs(refs)
    /\ pc' = "rendered"
    /\ UNCHANGED <<st_secrets, user_q, intent, refs, answer, raised,
                   requests_made, callee, data, result>>

\* answer = ask_openrouter(SYSTEM_PROMPT, composed_user_prompt)
AskOpenrouter ==
    /\ pc = "rendered"
    /\ \E resp \in ResponsesIf(OPENROUTER_API_KEY, ChatResponses) :
          LET r == ask_openrouter(SYSTEM_PROMPT,
                                  ComposeUserPrompt(user_q, refs_text), resp)
          IN  /\ answer' = r.ret
              /\ requests_made' = [requests_made EXCEPT !["chat"] = r.net]
              /\ pc' = "done"
    /\ UNCHANGED <<st_secrets, user_q, intent, refs, refs_text, raised,
                   callee, data, result>>

Next == Submit \/ RenderRefs \/ AskOpenrouter

Spec == Init /\ [][Next]_vars

---------------------------------------------------------------------------
(* The classifiers, applied to every bounded query *)

NoSecrets == [flat |-> {}, api_keys |-> {}]

InitClassify ==
    /\ st_secrets = NoSecrets
    /\ user_q \in Queries
    /\ pc = "classify"
    /\ intent = NoIntent
    /\ refs = <<>>
    /\ refs_text = <<>>
    /\ answer = <<>>
    /\ raised = "none"
    /\ requests_made = NoRequests
    /\ callee = "none"
    /\ data = NoData
    /\ result = NoValue

ClassifyQuery ==
    /\ pc = "classify"
    /\ intent' = Classify(user_q)
    /\ pc' = "classified"
    /\ UNCHANGED <<st_secrets, user_q, refs, refs_text, answer, raised,
                   requests_made, callee, data, result>>

NextClassify == ClassifyQuery

SpecClassify == InitClassify /\ [][NextClassify]_vars

---------------------------------------------------------------------------
(* render_refs, applied to reference dicts built in any insertion order *)

Keys == {"wolfram", "weather", "news", "google"}

GoogleLine(i) == <<"hit" \o ToString(i)>>

NewsLine(i) == <<"headline" \o ToString(i)>>

\* the values a key of the dict can hold
ValuesOf(k) ==
    IF k = "wolfram" THEN { Str(<<"42">>) }
    ELSE IF k = "weather" THEN { Str(<<"Paris: ", "21.5", " C, ", "clear sky">>) }
    ELSE IF k = "news"
         THEN { List([i \in 1..n |-> NewsLine(i)]) : n \in 0..MaxNewsItems }
                  \cup { Str(<<"no news">>) }
         ELSE { List([i \in 1..n |-> GoogleLine(i)]) : n \in 0..MaxGoogleItems }
                  \cup { Str(<<"no hits">>) }

InitRender ==
    /\ st_secrets = NoSecrets
    /\ user_q = <<>>
    /\ pc = "built"
    /\ intent = NoIntent
    /\ refs = <<>>
    /\ refs_text = <<>>
    /\ answer = <<>>
    /\ raised = "none"
    /\ requests_made = NoRequests
    /\ callee = "none"
    /\ data = NoData
    /\ result = NoValue

\* refs[k] = v for a key that is not in the dict yet
InsertRef ==
    /\ pc = "built"
    /\ \E k \in Keys \ DictKeys(refs) :
          \E v \in ValuesOf(k) : refs' = DictSet(refs, k, v)
    /\ UNCHANGED <<st_secrets, user_q, pc, intent, refs_text, answer, raised,
                   requests_made, callee, data, result>>

NextRender == InsertRef \/ RenderRefs

SpecRender == InitRender /\ [][NextRender]_vars

---------------------------------------------------------------------------
(* The collaborators, each called on its own *)

Cities == {W_London, F_Paris}

Prompts == { <<"system A">>, <<"prompt B">> }

InitCollab ==
    /\ st_secrets \in SecretConfigs
    /\ user_q = <<>>
    /\ pc = "harness"
    /\ intent = NoIntent
    /\ refs = <<>>
    /\ refs_text = <<>>
    /\ answer = <<>>
    /\ raised = "none"
    /\ requests_made = NoRequests
    /\ callee = "none"
    /\ data = NoData
    /\ result = NoValue

CollabUnchanged ==
    /\ pc' = "returned"
    /\ UNCHANGED <<st_secrets, user_q, intent, refs, refs_text, answer>>

CallGoogle ==
    /\ pc = "harness"
    /\ \E resp \in ResponsesIf(GOOGLE_API_KEY /\ GOOGLE_CSE_ID, GoogleResponses) :
          LET r == google_cse_search(P_news, 5, resp)
          IN  /\ callee' = "google_cse_search"
              /\ data' = [args |-> <<P_news>>, resp |-> resp]
              /\ result' = r.ret
              /\ raised' = r.raised
              /\ requests_made' = [NoRequests EXCEPT !["google"] = r.net]
    /\ CollabUnchanged

CallWolfram ==
    /\ pc = "harness"
    /\ \E resp \in ResponsesIf(SecretsSubscript("WOLFRAM_APP_ID"), WolframResponses) :
          LET r == query_wolfram_alpha(P_sum, resp)
          IN  /\ callee' = "query_wolfram_alpha"
              /\ data' = [args |-> <<P_sum>>, resp |-> resp]
              /\ result' = r.ret
              /\ raised' = r.raised
              /\ requests_made' = [NoRequests EXCEPT !["wolfram"] = r.net]
    /\ CollabUnchanged

CallWeather ==
    /\ pc = "harness"
    /\ \E city \in Cities :
          \E resp \in ResponsesIf(OPENWEATHER_API_KEY, WeatherResponses) :
              LET r == openweather(city, resp)
              IN  /\ callee' = "openweather"
                  /\ data' = [args |-> <<city>>, resp |-> resp]
                  /\ result' = r.ret
                  /\ raised' = r.raised
                  /\ requests_made' = [NoRequests EXCEPT !["weather"] = r.net]
    /\ CollabUnchanged

CallNews ==
    /\ pc = "harness"
    /\ \E resp \in ResponsesIf(NEWS_API_KEY, NewsResponses) :
          LET r == news_top("us", 5, resp)
          IN  /\ callee' = "news_top"
              /\ data' = [args |-> <<>>, resp |-> resp]
              /\ result' = r.ret
              /\ raised' = r.raised
              /\ requests_made' = [NoRequests EXCEPT !["news"] = r.net]
    /\ CollabUnchanged

CallAsk ==
    /\ pc = "harness"
    /\ \E sp \in Prompts, up \in Prompts :
          \E resp \in ResponsesIf(OPENROUTER_API_KEY, ChatResponses) :
              LET r == ask_openrouter(sp, up, resp)
              IN  /\ callee' = "ask_openrouter"
                  /\ data' = [args |-> <<sp, up>>, resp |-> resp]
                  /\ result' = Str(r.ret)
                  /\ raised' = r.raised
                  /\ requests_made' = [NoRequests EXCEPT !["chat"] = r.net]
    /\ CollabUnchanged

NextCollab == CallGoogle \/ CallWolfram \/ CallWeather \/ CallNews \/ CallAsk

SpecCollab == InitCollab /\ [][NextCollab]_vars

---------------------------------------------------------------------------
(* Properties *)

Submitted == pc # "idle"

\* C1: for every non-empty query, every credential configuration and every
\* provider outcome, build_context_snippet returns a reference dict: no
\* exception escapes it and the pipeline is not aborted before the answer
\* request.
C1_AggregatorNeverRaises == raised = "none" /\ pc # "raised"

\* the keys the aggregator is to produce for the intents of a query
ExpectedKeys(it) ==
    {"google"}
        \cup (IF it.math THEN {"wolfram"} ELSE {})
        \cup (IF it.city.some THEN {"weather"} ELSE {})
        \cup (IF it.news THEN {"news"} ELSE {})

\* C2: once the aggregator has run on a non-empty query, the keys of the
\* reference dict are exactly: google always, wolfram iff the query looks
\* like math, weather iff a city was produced, news iff the news hint
\* matched - whatever credentials are configured.
C2_KeySetMatchesIntents == Submitted => DictKeys(refs) = ExpectedKeys(intent)

\* C3: ask_openrouter without its credential returns the one fixed message,
\* whatever the prompts, and issues no request; with the credential and a
\* failing call it returns the failure marker followed by the failure detail;
\* it never raises.
C3_AskOpenrouterDegrades ==
    callee = "ask_openrouter" =>
        /\ raised = "none"
        /\ ~OPENROUTER_API_KEY =>
              /\ result = Str(MSG_MISSING_OPENROUTER)
              /\ requests_made["chat"] = 0
        /\ (OPENROUTER_API_KEY /\ data.resp.exc) =>
              result = Str(<<"[x] OpenRouter error: ", data.resp.detail>>)

C3_Witness ==
    /\ callee = "ask_openrouter"
    /\ ~OPENROUTER_API_KEY
    /\ data.args = << <<"system A">>, <<"prompt B">> >>
    /\ result = Str(MSG_MISSING_OPENROUTER)

\* the credential each reference collaborator needs is configured
Configured(c) ==
    IF c = "google_cse_search" THEN GOOGLE_API_KEY /\ GOOGLE_CSE_ID
    ELSE IF c = "query_wolfram_alpha" THEN get_secret("WOLFRAM_APP_ID")
    ELSE IF c = "openweather" THEN OPENWEATHER_API_KEY
    ELSE NEWS_API_KEY

\* C4: each of the four reference collaborators, called while its own
\* credential is not configured, returns a "skipped" placeholder, does not
\* raise and issues no request, whatever the other credentials are.
C4_MissingCredentialIsSkipped ==
    (callee \in {"google_cse_search", "query_wolfram_alpha", "openweather", "news_top"}
        /\ ~Configured(callee)) =>
        /\ raised = "none"
        /\ Len(result.items) = 1
        /\ callee = "google_cse_search" => result = List(<<MSG_GOOGLE_SKIPPED>>)
        /\ callee = "openweather" => result = Str(MSG_WEATHER_SKIPPED)
        /\ callee = "news_top" => result = List(<<MSG_NEWS_SKIPPED>>)
        /\ \A p \in Providers : requests_made[p] = 0

RenderOrder == <<"wolfram", "weather", "news", "google">>

IsLabel(t) ==
    t \in {"- Wolfram: ", "- Weather: ", "- News:\n  ", "- News: ",
           "- Google:\n  ", "- Google: "}

KeyOfLabel(t) ==
    IF t = "- Wolfram: " THEN "wolfram"
    ELSE IF t = "- Weather: " THEN "weather"
    ELSE IF t \in {"- News:\n  ", "- News: "} THEN "news"
    ELSE "google"

\* the keys of the labelled entries of a rendered text, in text order
LabelsOf(text) ==
    LET labels == SelectSeq(text, IsLabel)
    IN  [i \in 1..Len(labels) |-> KeyOfLabel(labels[i])]

\* C5: render_refs emits one labelled entry per key that is present, none
\* for an absent key, in the order wolfram, weather, news, google, whatever
\* the order in which the keys were inserted.
C5_FixedRenderOrder ==
    pc = "rendered" =>
        LET Present(k) == DictHas(refs, k)
        IN  LabelsOf(refs_text) = SelectSeq(RenderOrder, Present)

C5_Witness ==
    /\ pc = "rendered"
    /\ Len(refs) = 4
    /\ refs[1].key = "google"
    /\ refs[2].key = "news"
    /\ refs[4].key = "wolfram"

\* the items of the list value of key k that occur in the text, in text order
ItemsShown(text, k) ==
    LET items == DictGet(refs, k).items
        IsItem(t) == \E i \in 1..Len(items) : items[i] = <<t>>
    IN  SelectSeq(text, IsItem)

\* the first n items of the list value of key k (all of them when fewer)
FirstItems(k, n) ==
    LET items == DictGet(refs, k).items
    IN  [i \in 1..Min(n, Len(items)) |-> items[i][1]]

\* C6: of a google list of n items render_refs shows exactly the first
\* min(n, 5), of a news list of m items exactly the first min(m, 3), in
\* their order, and none of the items beyond.
C6_ItemCaps ==
    pc = "rendered" =>
        /\ (DictHas(refs, "google") /\ DictGet(refs, "google").isList) =>
              ItemsShown(refs_text, "google") = FirstItems("google", 5)
        /\ (DictHas(refs, "news") /\ DictGet(refs, "news").isList) =>
              ItemsShown(refs_text, "news") = FirstItems("news", 3)

C6_Witness ==
    /\ pc = "rendered"
    /\ DictHas(refs, "google")
    /\ DictHas(refs, "news")
    /\ Len(DictGet(refs, "google").items) = 7
    /\ Len(DictGet(refs, "news").items) = 5
    /\ Len(ItemsShown(refs_text, "google")) = 5

\* one of the news words occurs in q as a whole word, ignoring case
WholeWordNews(q) ==
    \E i \in 1..Len(q) :
        \E w \in {W_news, W_headline, W_trending, W_today} : MatchWord(q, i, w)

\* C7: the news lookup is requested iff the query contains news, headline,
\* trending or today as a whole word, ignoring case.
C7_NewsIsWholeWord == pc = "classified" => (intent.news <=> WholeWordNews(user_q))

\* C8: a city extracted from a weather query has no white space at either
\* end and no period at its end.
C8_CityIsTrimmed ==
    (pc = "classified" /\ intent.city.some) =>
        LET city == intent.city.val
        IN  /\ city # <<>>
            /\ ~IsSpace(city[1])
            /\ ~IsSpace(city[Len(city)])
            /\ city[Len(city)] # "."

\* C9: every key of the reference dict maps to a non-empty value: a str that
\* is not empty, a list that holds at least one item.
C9_NoEmptyValue ==
    \A i \in 1..Len(refs) :
        /\ Len(refs[i].value.items) >= 1
        /\ \A j \in 1..Len(refs[i].value.items) : Truthy(refs[i].value.items[j])

C9_Witness ==
    /\ pc = "built"
    /\ requests_made["news"] = 1
    /\ DictHas(refs, "news")
    /\ DictGet(refs, "news") = List(<< <<"[i] No headlines">> >>)

\* a text that is neither empty nor white space only
NonBlank(t) == \E i \in 1..Len(t) : t[i] # "" /\ ~IsSpace(t[i])

\* the text of a section: the plaintext of its first sub-section that is not blank
SectionText(pod) ==
    LET hits == { i \in 1..Len(pod.subpods) : NonBlank(pod.subpods[i].plaintext) }
    IN  IF hits = {} THEN <<>>
        ELSE pod.subpods[CHOOSE x \in hits : \A y \in hits : x <= y].plaintext

\* what the parse of a successful response is to return
ExpectedAnswer(pods) ==
    LET results == { i \in 1..Len(pods) : Lower(pods[i].title) = T_result }
        textual == { i \in 1..Len(pods) : SectionText(pods[i]) # <<>> }
        first(S) == CHOOSE x \in S : \A y \in S : x <= y
    IN  IF results # {} THEN SectionText(pods[first(results)])
        ELSE IF textual # {} THEN SectionText(pods[first(textual)])
        ELSE MSG_WOLFRAM_UNREADABLE

\* C10: for a successful response query_wolfram_alpha returns the text of
\* the section titled Result when there is one; otherwise the text of the
\* first section with content that is not blank; otherwise the fixed
\* "no readable answer" message.
C10_ResultThenFirstText ==
    (callee = "query_wolfram_alpha" /\ raised = "none"
        /\ ~data.resp.exc /\ data.resp.success) =>
        result = Str(ExpectedAnswer(data.resp.pods))

====
